---- MODULE Spec2Model ----
(***************************************************************************)
(* Key-tree derivers: the BIP-32 child-key deriver (src/derivers/bip32.ts) *)
(* and the BIP-39 seed-to-master-key transform (derivers/bip39.ts).        *)
(*                                                                         *)
(* Byte strings are modelled by the integers they encode.  The 32-bit      *)
(* index space, the 256-bit key space and the hash functions are scaled    *)
(* down so that the state space is finite and every index can be visited;  *)
(* every formula is written relative to the scaled constants.              *)
(***************************************************************************)
EXTENDS Integers, Sequences, FiniteSets, TLC

\* ------------------------------------------------------------------ bounds
\* Stand-in for BIP_32_HARDENED_OFFSET = 0x80000000: child indices are
\* 0 .. BIP_32_HARDENED_OFFSET - 1, hardened ones have the offset added.
BIP_32_HARDENED_OFFSET == 4
\* Stand-in for the order n of secp256k1; valid private keys are 1 .. n-1.
CurveOrder == 5
\* Longest path segment, in characters.
MaxPathLen == 3
\* Deepest node a derivation is started from (caps the chain length).
MaxDepth == 2
\* Seeds are 0 .. MaxSeed.
MaxSeed == 3

\* ------------------------------------------------------------ value spaces
Curves == {"secp256k1", "ed25519"}
\* 32-byte strings read as integers: some of them are >= the curve order.
KeySpace == CurveOrder + 3
KeyBytes == 0 .. (KeySpace - 1)
ChainCodes == {0, 1}
Seeds == 0 .. MaxSeed
\* An absent optional value (privateKey, masterFingerprint).
Absent == -1
\* Number.NaN, the result of parseInt on a string without leading digits.
NaN == -1000000

Digits == {"0", "1", "4"}
Chars == Digits \cup {"'", "-"}
\* Path segments that are strings, as sequences of characters.
PathStrings == UNION {[1 .. k -> Chars] : k \in 0 .. MaxPathLen}
\* A path segment that is a Uint8Array instead of a string.
BytesPath == <<"bytes">>
Paths == PathStrings \cup {BytesPath}

\* ------------------------------------------------- cryptography (scaled)
\* curve.curve.n
CurveN(curve) == IF curve = "secp256k1" THEN CurveOrder ELSE CurveOrder + 2

\* curve.secret: the HMAC key of the curve ('Bitcoin seed', 'ed25519 seed').
CurveSecret(curve) == IF curve = "secp256k1" THEN 1 ELSE 2

\* curve.getPublicKey(privateKey, true): scalar multiplication of the
\* generator, in the additive group of integers modulo n with generator
\* n - 1; 0 is the point at infinity.
getPublicKey(privateKey, curve) ==
    (privateKey * (CurveN(curve) - 1)) % CurveN(curve)

\* hmac(sha512, key, message): a 64-byte digest as its left and right halves.
hmacSha512(key, message) ==
    LET x == (7 * key) + message
               + (((message * message) + (key * message)) \div 7) + 1
    IN  [left  |-> x % KeySpace,
         right |-> (x \div KeySpace) % Cardinality(ChainCodes)]

\* getFingerprint(publicKey): the first four bytes of a hash of the
\* compressed public key.
getFingerprint(publicKey) == ((2 * publicKey) + 1) % 4

\* mnemonicToSeed(path, wordlist): the external key-derivation function.
mnemonicToSeed(mnemonic) == ((3 * mnemonic) + 1) % (MaxSeed + 1)

\* ------------------------------------------------------------- key nodes
\* The value a caller holds before any node exists / the node of a failed call.
NoNode ==
    [privateKey |-> Absent, publicKey |-> Absent, chainCode |-> Absent,
     depth |-> Absent, parentFingerprint |-> Absent,
     masterFingerprint |-> Absent, index |-> Absent, curve |-> "none"]

\* Outcome of a call: the node it returns, or the kind of error it throws.
Returned(n) == [error |-> "none", node |-> n]
Thrown(kind) == [error |-> kind, node |-> NoNode]

\* SLIP10Node.fromExtendedKey: validates the key and computes the public
\* key when only a private key is given.  providerFails: the public-key
\* computation of the curve implementation rejects.
fromExtendedKey(o, providerFails) ==
    IF o.privateKey # Absent
         /\ (o.privateKey <= 0 \/ o.privateKey >= CurveN(o.curve))
    THEN Thrown("InvalidPrivateKey")
    ELSE IF o.privateKey = Absent
              /\ (o.publicKey <= 0 \/ o.publicKey >= CurveN(o.curve))
    THEN Thrown("InvalidPublicKey")
    ELSE IF o.privateKey # Absent /\ providerFails
    THEN Thrown("ProviderError")
    ELSE Returned([o EXCEPT !.publicKey =
                     IF o.privateKey # Absent
                     THEN getPublicKey(o.privateKey, o.curve)
                     ELSE o.publicKey])

\* SLIP10Node.fingerprint
fingerprint(n) == getFingerprint(n.publicKey)

\* ------------------------------------------------------------------ BIP-39
\* A variant of createBip39KeyFromSeed that skips the range assertion.
createBip39KeyFromSeed_NoRangeCheck(seed, curve, providerFails) ==
    LET key == hmacSha512(CurveSecret(curve), seed)
    IN  IF providerFails THEN Thrown("ProviderError")
        ELSE Returned(
               [privateKey |-> key.left,
                publicKey |-> getPublicKey(key.left, curve),
                chainCode |-> key.right,
                masterFingerprint |->
                    getFingerprint(getPublicKey(key.left, curve)),
                depth |-> 0, parentFingerprint |-> 0, index |-> 0,
                curve |-> curve])

\* A variant of createBip39KeyFromSeed that numbers the master key's depth
\* from one.
createBip39KeyFromSeed_DepthOne(seed, curve, providerFails) ==
    LET key == hmacSha512(CurveSecret(curve), seed)
    IN  IF ~(key.left > 0 /\ key.left < CurveN(curve))
        THEN Thrown("InvalidPrivateKey")
        ELSE IF providerFails THEN Thrown("ProviderError")
        ELSE fromExtendedKey(
               [privateKey |-> key.left, publicKey |-> Absent,
                chainCode |-> key.right,
                masterFingerprint |->
                    getFingerprint(getPublicKey(key.left, curve)),
                depth |-> 1, parentFingerprint |-> 0, index |-> 0,
                curve |-> curve], FALSE)

\* createBip39KeyFromSeed(seed, curve)
createBip39KeyFromSeed(seed, curve, providerFails) ==
    LET key == hmacSha512(CurveSecret(curve), seed)
        privateKey == key.left
        chainCode == key.right
    IN  IF ~(privateKey > 0 /\ privateKey < CurveN(curve))
        THEN Thrown("InvalidPrivateKey")
        ELSE IF providerFails THEN Thrown("ProviderError")
        ELSE fromExtendedKey(
               [privateKey |-> privateKey, publicKey |-> Absent,
                chainCode |-> chainCode,
                masterFingerprint |->
                    getFingerprint(getPublicKey(privateKey, curve)),
                depth |-> 0, parentFingerprint |-> 0, index |-> 0,
                curve |-> curve], FALSE)

\* ------------------------------------------------------------ path parsing
DigitValue(c) == CASE c = "0" -> 0 [] c = "1" -> 1 [] c = "4" -> 4

\* The number a string of decimal digits denotes.
RECURSIVE DecimalValue(_)
DecimalValue(s) ==
    IF Len(s) = 0 THEN 0
    ELSE (10 * DecimalValue(SubSeq(s, 1, Len(s) - 1))) + DigitValue(s[Len(s)])

\* The longest prefix of s made of decimal digits.
RECURSIVE LeadingDigits(_)
LeadingDigits(s) ==
    IF Len(s) = 0 \/ s[1] \notin Digits THEN <<>>
    ELSE <<s[1]>> \o LeadingDigits(Tail(s))

\* parseInt(string, 10): an optional sign, then the leading digits; NaN when
\* there are none.  The value is exact: the strings modelled are short.
parseInt(s) ==
    LET negative == Len(s) > 0 /\ s[1] = "-"
        digits == LeadingDigits(IF negative THEN Tail(s) ELSE s)
    IN  IF Len(digits) = 0 THEN NaN
        ELSE IF negative THEN 0 - DecimalValue(digits)
        ELSE DecimalValue(digits)

\* path.includes(`'`)
isHardenedPath(path) == \E k \in 1 .. Len(path) : path[k] = "'"

\* path.split(`'`)[0]: the part of the path before its first apostrophe.
indexPartOf(path) ==
    LET quotes == {k \in 1 .. Len(path) : path[k] = "'"}
    IN  IF quotes = {} THEN path
        ELSE SubSeq(path, 1,
                    (CHOOSE k \in quotes : \A j \in quotes : k <= j) - 1)

\* /^\d+$/u.test(indexPart)
isDecimal(indexPart) ==
    Len(indexPart) > 0 /\ \A k \in 1 .. Len(indexPart) : indexPart[k] \in Digits

\* A variant of the index check that lets the hardened offset itself through.
indexRejected_OffByOne(indexPart, childIndex) ==
    \/ ~isDecimal(indexPart)
    \/ childIndex = NaN
    \/ childIndex < 0
    \/ childIndex > BIP_32_HARDENED_OFFSET

\* The condition under which deriveChildKey throws 'Invalid BIP-32 index'.
indexRejected(indexPart, childIndex) ==
    \/ ~isDecimal(indexPart)
    \/ childIndex = NaN                    \* !Number.isInteger(childIndex)
    \/ childIndex < 0
    \/ childIndex >= BIP_32_HARDENED_OFFSET

\* ------------------------------------------------- derivers/shared (scaled)
\* The bytes prefix || key || index (32-bit big-endian) as one integer;
\* prefix 0 is the byte 0x00, prefix 1 the parity byte of a compressed point.
Serialize(prefix, key, index) ==
    ((((prefix * KeySpace) + key) * 2) * BIP_32_HARDENED_OFFSET) + index

\* derivePublicExtension({ parentPublicKey, childIndex })
derivePublicExtension(parentPublicKey, childIndex) ==
    Serialize(1, parentPublicKey, childIndex)

\* deriveSecretExtension({ privateKey, childIndex, isHardened, curve })
deriveSecretExtension(privateKey, childIndex, isHardened, curve) ==
    IF isHardened
    THEN Serialize(0, privateKey, childIndex + BIP_32_HARDENED_OFFSET)
    ELSE derivePublicExtension(getPublicKey(privateKey, curve), childIndex)

\* generateEntropy({ chainCode, extension })
generateEntropy(chainCode, extension) == hmacSha512(chainCode, extension)

\* validateBIP32Index(index) does not throw.
validateBIP32Index(index) == index >= 0 /\ index < BIP_32_HARDENED_OFFSET

\* The key material of an attempt is invalid: the tweak is not below the
\* curve order, or the child scalar is zero / the child point is at infinity.
invalidPrivateMaterial(a) ==
    \/ a.entropy.left >= CurveN(a.curve)
    \/ (a.privateKey + a.entropy.left) % CurveN(a.curve) = 0

invalidPublicMaterial(a) ==
    \/ a.entropy.left >= CurveN(a.curve)
    \/ (a.publicKey + getPublicKey(a.entropy.left, a.curve)) % CurveN(a.curve) = 0

\* derivePrivateChildKey(args)
derivePrivateChildKey(a, providerFails) ==
    IF invalidPrivateMaterial(a) THEN Thrown("InvalidKey")
    ELSE fromExtendedKey(
           [privateKey |-> (a.privateKey + a.entropy.left) % CurveN(a.curve),
            publicKey |-> Absent,
            chainCode |-> a.entropy.right,
            depth |-> a.depth + 1,
            masterFingerprint |-> a.masterFingerprint,
            parentFingerprint |-> a.parentFingerprint,
            index |-> a.childIndex
                        + (IF a.isHardened THEN BIP_32_HARDENED_OFFSET ELSE 0),
            curve |-> a.curve], providerFails)

\* derivePublicChildKey(args)
derivePublicChildKey(a, providerFails) ==
    IF invalidPublicMaterial(a) THEN Thrown("InvalidKey")
    ELSE IF providerFails THEN Thrown("ProviderError")
    ELSE fromExtendedKey(
           [privateKey |-> Absent,
            publicKey |-> (a.publicKey + getPublicKey(a.entropy.left, a.curve))
                            % CurveN(a.curve),
            chainCode |-> a.entropy.right,
            depth |-> a.depth + 1,
            masterFingerprint |-> a.masterFingerprint,
            parentFingerprint |-> a.parentFingerprint,
            index |-> a.childIndex,
            curve |-> a.curve], FALSE)

\* ------------------------------------------------------------------- state
VARIABLES
    node,       \* the key node the caller holds: the parent of the next segment
    pc,         \* "idle", or "deriveNode" while a BIP-32 derivation is running
    args,       \* the DeriveKeyArgs of the running deriveNode invocation
    result,     \* outcome of the last finished call
    call,       \* history: the inputs of the last call
    attempts,   \* history: the attempts of the running / last BIP-32 call
    origin      \* history: the BIP-39 root of node and the segments since

vars == <<node, pc, args, result, call, attempts, origin>>

NoArgs ==
    [privateKey |-> Absent, publicKey |-> Absent,
     entropy |-> [left |-> 0, right |-> 0], chainCode |-> Absent,
     childIndex |-> Absent, isHardened |-> FALSE, depth |-> Absent,
     parentFingerprint |-> Absent, masterFingerprint |-> Absent,
     curve |-> "none"]

NoCall ==
    [op |-> "none", path |-> <<>>, curve |-> "none", parent |-> NoNode,
     seed |-> Absent, childIndex |-> Absent, isHardened |-> FALSE]

Init ==
    /\ node = NoNode
    /\ pc = "idle"
    /\ args = NoArgs
    /\ result = Thrown("nocall")
    /\ call = NoCall
    /\ attempts = <<>>
    /\ origin = [root |-> NoNode, segments |-> 0]

\* A finished call: the caller keeps the node it returned, or the node it
\* had when the call threw.
Finish(outcome, newOrigin) ==
    /\ pc' = "idle"
    /\ args' = NoArgs
    /\ result' = outcome
    /\ node' = IF outcome.error = "none" THEN outcome.node ELSE node
    /\ origin' = IF outcome.error = "none" THEN newOrigin ELSE origin

\* ----------------------------------------------------------------- actions
\* The caller builds a root node from an extended key it already has
\* (SLIP10Node.fromExtendedKey): with a private key, or public-only.
ImportOptions ==
    {[privateKey |-> IF private THEN key ELSE Absent,
      publicKey |-> IF private THEN Absent ELSE key,
      chainCode |-> chainCode,
      depth |-> 0, parentFingerprint |-> 0, masterFingerprint |-> Absent,
      index |-> 0, curve |-> "secp256k1"] :
        key \in KeyBytes, private \in BOOLEAN, chainCode \in ChainCodes}

ImportNode ==
    /\ pc = "idle"
    /\ \E o \in ImportOptions :
         /\ Finish(fromExtendedKey(o, FALSE), [root |-> NoNode, segments |-> 0])
         /\ call' = [NoCall EXCEPT !.op = "import"]
         /\ attempts' = <<>>

\* createBip39KeyFromSeed(seed, curve), called directly.
CreateFromSeed ==
    /\ pc = "idle"
    /\ \E seed \in Seeds, curve \in Curves, providerFails \in BOOLEAN :
         LET out == createBip39KeyFromSeed(seed, curve, providerFails)
         IN  /\ Finish(out, [root |-> out.node, segments |-> 0])
             /\ call' = [NoCall EXCEPT !.op = "bip39", !.seed = seed,
                                       !.curve = curve]
             /\ attempts' = <<>>

\* The bip39 deriver's deriveChildKey({ path, curve }): args.node, when the
\* caller passes one, is not read.
bip39DeriveChildKey ==
    /\ pc = "idle"
    /\ \E mnemonic \in Seeds, curve \in Curves, withNode \in BOOLEAN,
          providerFails \in BOOLEAN :
         LET seed == mnemonicToSeed(mnemonic)
             out == createBip39KeyFromSeed(seed, curve, providerFails)
         IN  /\ Finish(out, [root |-> out.node, segments |-> 0])
             /\ call' = [NoCall EXCEPT !.op = "bip39", !.seed = seed,
                                       !.curve = curve,
                                       !.parent = IF withNode THEN node
                                                  ELSE NoNode]
             /\ attempts' = <<>>

\* The `args` object of deriveChildKey.
childArgs(parent, childIndex, isHardened, curve) ==
    [NoArgs EXCEPT !.chainCode = parent.chainCode,
                   !.childIndex = childIndex,
                   !.isHardened = isHardened,
                   !.depth = parent.depth,
                   !.parentFingerprint = fingerprint(parent),
                   !.masterFingerprint = parent.masterFingerprint,
                   !.curve = curve]

\* A variant of the hardened guard that never fires.
hardenedWithoutPrivateKey_Off(isHardened, parent) == FALSE

\* isHardened && !node.privateKey
hardenedWithoutPrivateKey(isHardened, parent) ==
    isHardened /\ parent.privateKey = Absent

\* The bip32 deriver's deriveChildKey({ path, node, curve }) up to its call
\* of deriveNode, for a path segment among `paths`.
deriveChildKeyOn(paths) ==
    /\ pc = "idle"
    /\ \E path \in paths, curve \in Curves, withNode \in BOOLEAN :
         LET parent == IF withNode THEN node ELSE NoNode
             isString == path # BytesPath
             isHardened == isString /\ isHardenedPath(path)
             indexPart == IF isString THEN indexPartOf(path) ELSE <<>>
             childIndex == parseInt(indexPart)
             base == childArgs(parent, childIndex, isHardened, curve)
             throws(kind) ==
                 /\ Finish(Thrown(kind), origin)
                 /\ call' = [NoCall EXCEPT !.op = "bip32", !.path = path,
                                           !.curve = curve, !.parent = parent]
         IN  /\ attempts' = <<>>
             /\ IF ~isString THEN throws("InvalidPath")
                ELSE IF curve # "secp256k1" THEN throws("InvalidCurve")
                ELSE IF parent = NoNode THEN throws("InvalidParameters")
                ELSE IF hardenedWithoutPrivateKey(isHardened, parent)
                     THEN throws("InvalidParameters")
                ELSE IF indexRejected(indexPart, childIndex)
                     THEN throws("InvalidIndex")
                ELSE /\ pc' = "deriveNode"
                     /\ args' =
                          IF parent.privateKey # Absent
                          THEN [base EXCEPT
                                  !.privateKey = parent.privateKey,
                                  !.entropy = generateEntropy(
                                      parent.chainCode,
                                      deriveSecretExtension(parent.privateKey,
                                          childIndex, isHardened, curve))]
                          ELSE [base EXCEPT
                                  !.publicKey = parent.publicKey,
                                  !.entropy = generateEntropy(
                                      parent.chainCode,
                                      derivePublicExtension(parent.publicKey,
                                          childIndex))]
                     /\ result' = Thrown("pending")
                     /\ call' = [NoCall EXCEPT !.op = "bip32", !.path = path,
                                   !.curve = curve, !.parent = parent,
                                   !.childIndex = childIndex,
                                   !.isHardened = isHardened]
                     /\ UNCHANGED <<node, origin>>

\* The body of deriveNode's try block: one attempt at args.childIndex.
attempt(a, providerFails) ==
    IF a.privateKey # Absent
    THEN derivePrivateChildKey(a, providerFails)
    ELSE derivePublicChildKey(a, providerFails)

Attempted(a, outcome) ==
    Append(attempts, [childIndex |-> a.childIndex, entropy |-> a.entropy,
                      isHardened |-> a.isHardened, depth |-> a.depth,
                      outcome |-> outcome.error])

\* deriveNode: the attempt returns a node.
deriveNodeTry ==
    /\ pc = "deriveNode"
    /\ \E providerFails \in BOOLEAN :
         LET out == attempt(args, providerFails)
         IN  /\ out.error = "none"
             /\ attempts' = Attempted(args, out)
             /\ Finish(out, [origin EXCEPT !.segments = @ + 1])
             /\ call' = call

\* A variant of nextIndex that skips an index.
nextIndex_Skip(childIndex) == childIndex + 2

\* childIndex + 1, the index deriveNode's catch block goes on with.
nextIndex(childIndex) == childIndex + 1

\* A variant of retryArgs that numbers the depth per attempt.
retryArgs_Deeper(a) ==
    [a EXCEPT !.childIndex = nextIndex(a.childIndex), !.depth = a.depth + 1]

\* A variant of retryArgs that loses the fingerprints.
retryArgs_NoProvenance(a) ==
    [a EXCEPT !.childIndex = nextIndex(a.childIndex),
              !.masterFingerprint = Absent, !.parentFingerprint = 0]

\* The `args` object of deriveNode's catch block.
retryArgs(a) == [a EXCEPT !.childIndex = nextIndex(a.childIndex)]

\* A variant of newEntropy that keeps the entropy of the failed attempt.
newEntropy_Stale(a) == a.entropy

\* newEntropy of deriveNode's catch block: the entropy of the next index.
newEntropy(a) ==
    IF a.privateKey # Absent
    THEN generateEntropy(a.chainCode,
             deriveSecretExtension(a.privateKey, nextIndex(a.childIndex),
                                   a.isHardened, a.curve))
    ELSE generateEntropy(a.chainCode,
             derivePublicExtension(a.publicKey, nextIndex(a.childIndex)))

\* validateBIP32Index(childIndex + 1) of the catch block does not throw.
retryAllowed(a) == validateBIP32Index(nextIndex(a.childIndex))

\* deriveNode: the attempt throws, whatever it throws; the catch block
\* validates the next index and calls deriveNode again.
deriveNodeCatch ==
    /\ pc = "deriveNode"
    /\ \E providerFails \in BOOLEAN :
         LET out == attempt(args, providerFails)
         IN  /\ out.error # "none"
             /\ attempts' = Attempted(args, out)
             /\ call' = call
             /\ IF ~retryAllowed(args)
                THEN Finish(Thrown("InvalidIndex"), origin)
                ELSE /\ args' = [retryArgs(args) EXCEPT
                                   !.entropy = newEntropy(args)]
                     /\ UNCHANGED <<node, pc, result, origin>>

\* The segments a caller chains: child 0 and child 1, normal and hardened,
\* an index out of range and a malformed segment.
ChainPaths ==
    {<<"0">>, <<"1">>, <<"0", "'">>, <<"1", "'">>, <<"4">>, <<"1", "-">>}

\* One segment of a multipath, applied to the node the previous one returned.
deriveChildKey ==
    /\ node = NoNode \/ node.depth <= MaxDepth
    /\ deriveChildKeyOn(ChainPaths)

Next ==
    \/ ImportNode
    \/ CreateFromSeed
    \/ bip39DeriveChildKey
    \/ deriveChildKey
    \/ deriveNodeTry
    \/ deriveNodeCatch

Spec == Init /\ [][Next]_vars

\* The event loop resumes a derivation that is awaiting an attempt.
FairSpec == Spec /\ WF_vars(deriveNodeTry \/ deriveNodeCatch)

\* ------------------------------------------ one segment, every path string
\* The root nodes a caller can hold: imported, or made from a seed.
ImportedRoots ==
    {fromExtendedKey(o, FALSE).node :
        o \in {x \in ImportOptions : fromExtendedKey(x, FALSE).error = "none"}}

SeedRoots ==
    {createBip39KeyFromSeed(sc[1], sc[2], FALSE).node :
        sc \in {x \in Seeds \X Curves :
                  createBip39KeyFromSeed(x[1], x[2], FALSE).error = "none"}}

PathInit ==
    /\ \/ node \in ImportedRoots \cup {NoNode}
          /\ origin = [root |-> NoNode, segments |-> 0]
       \/ node \in SeedRoots /\ origin = [root |-> node, segments |-> 0]
    /\ pc = "idle"
    /\ args = NoArgs
    /\ result = Thrown("nocall")
    /\ call = NoCall
    /\ attempts = <<>>

\* The first segment applied to a root, drawn from every path string.
PathCall ==
    /\ call.op = "none"
    /\ deriveChildKeyOn(Paths)

PathNext ==
    \/ PathCall
    \/ deriveNodeTry
    \/ deriveNodeCatch

PathSpec == PathInit /\ [][PathNext]_vars

\* ------------------------------------------------------------------ claims
\* The last finished call was a BIP-32 derivation that returned a node.
Bip32Returned ==
    pc = "idle" /\ call.op = "bip32" /\ result.error = "none"

\* The entropy BIP-32 prescribes for child k of parent P: HMAC-SHA512 under
\* P's chain code of 0x00 || privateKey || k' (hardened), or of
\* publicKey || k (normal, and every child of a public-only parent).
EntropyFor(P, k, hardened, curve) ==
    hmacSha512(P.chainCode,
        IF P.privateKey # Absent /\ hardened
        THEN Serialize(0, P.privateKey, k + BIP_32_HARDENED_OFFSET)
        ELSE Serialize(1, IF P.privateKey # Absent
                          THEN getPublicKey(P.privateKey, curve)
                          ELSE P.publicKey, k))

\* The key material BIP-32 prescribes for child k of parent P is invalid.
MaterialInvalid(P, k, hardened, curve) ==
    LET tweak == EntropyFor(P, k, hardened, curve).left
    IN  \/ tweak >= CurveN(curve)
        \/ IF P.privateKey # Absent
           THEN (P.privateKey + tweak) % CurveN(curve) = 0
           ELSE (P.publicKey + getPublicKey(tweak, curve)) % CurveN(curve) = 0

\* C1: a BIP-32 derivation of child i (hardened flag h) of parent P attempts
\* the indices i, i+1, i+2, ... in order, none skipped, each with the
\* extension and the HMAC entropy of that index under P's chain code; the
\* node it returns carries the index of the first attempt that yielded a
\* valid key (every attempt before it failed), with the hardened flag h.
\* An attempt that failed for invalid key material was at an index whose
\* key material is invalid, and the returned index has valid key material.
C1_RetryFindsSmallestValidIndex ==
    /\ call.op = "bip32" =>
         \A k \in 1 .. Len(attempts) :
            /\ attempts[k].childIndex = call.childIndex + (k - 1)
            /\ attempts[k].isHardened = call.isHardened
            /\ attempts[k].entropy =
                 EntropyFor(call.parent, call.childIndex + (k - 1),
                            call.isHardened, call.curve)
            /\ k < Len(attempts) => attempts[k].outcome # "none"
            /\ attempts[k].outcome = "InvalidKey" =>
                 MaterialInvalid(call.parent, call.childIndex + (k - 1),
                                 call.isHardened, call.curve)
            /\ attempts[k].outcome = "none" =>
                 ~MaterialInvalid(call.parent, call.childIndex + (k - 1),
                                  call.isHardened, call.curve)
    /\ pc = "deriveNode" =>
         /\ args.childIndex = call.childIndex + Len(attempts)
         /\ args.entropy = EntropyFor(call.parent, args.childIndex,
                                      call.isHardened, call.curve)
    /\ Bip32Returned =>
         LET j == call.childIndex + (Len(attempts) - 1)
         IN  /\ Len(attempts) >= 1
             /\ attempts[Len(attempts)].outcome = "none"
             /\ result.node.index % BIP_32_HARDENED_OFFSET = j
             /\ (result.node.index >= BIP_32_HARDENED_OFFSET)
                   <=> call.isHardened
             /\ result.node.chainCode =
                  EntropyFor(call.parent, j, call.isHardened, call.curve).right

\* A derivation returned a node after at least one attempt failed for
\* invalid key material.
C1_Witness ==
    /\ Bip32Returned
    /\ Len(attempts) >= 2
    /\ attempts[1].outcome = "InvalidKey"

\* C2: an attempt that fails for another reason than invalid key material
\* ends the derivation with that failure; it is never followed by a retry.
C2_OtherFailuresPropagate ==
    \A k \in 1 .. Len(attempts) :
       attempts[k].outcome \notin {"none", "InvalidKey"} =>
          /\ k = Len(attempts)
          /\ pc = "idle"
          /\ result.error = attempts[k].outcome

\* The path contains an apostrophe.
HasApostrophe(path) == \E k \in 1 .. Len(path) : path[k] = "'"

\* A BIP-32 call that got past the checks of the path type, the curve and
\* the presence of a node.
Bip32WellFormedCall ==
    /\ call.op = "bip32"
    /\ call.path # BytesPath
    /\ call.curve = "secp256k1"
    /\ call.parent # NoNode

\* C3: a hardened segment applied to a public-only parent fails with
\* InvalidParameters and returns no node; a parent with a private key never
\* fails for that reason; a public-only parent is derived only through the
\* public-key extension, never hardened.
C3_HardenedNeedsPrivateKey ==
    Bip32WellFormedCall =>
       /\ (HasApostrophe(call.path) /\ call.parent.privateKey = Absent) =>
             /\ pc = "idle"
             /\ result = Thrown("InvalidParameters")
             /\ attempts = <<>>
       /\ call.parent.privateKey # Absent =>
             result.error # "InvalidParameters"
       /\ call.parent.privateKey = Absent =>
             /\ \A k \in 1 .. Len(attempts) :
                   /\ ~attempts[k].isHardened
                   /\ attempts[k].entropy =
                        hmacSha512(call.parent.chainCode,
                            Serialize(1, call.parent.publicKey,
                                      attempts[k].childIndex))
             /\ pc = "deriveNode" =>
                   /\ args.privateKey = Absent
                   /\ ~args.isHardened
             /\ result.error = "none" =>
                   /\ result.node.privateKey = Absent
                   /\ result.node.index < BIP_32_HARDENED_OFFSET

\* A hardened segment was refused on a public-only parent.
C3_Witness ==
    /\ Bip32WellFormedCall
    /\ call.path = <<"1", "'">>
    /\ call.parent.privateKey = Absent
    /\ result = Thrown("InvalidParameters")

\* The digits before the first apostrophe of a path, and their value.
RequestedDigits(path) ==
    IF HasApostrophe(path)
    THEN SubSeq(path, 1,
           (CHOOSE k \in 1 .. Len(path) :
               path[k] = "'" /\ \A j \in 1 .. (k - 1) : path[j] # "'") - 1)
    ELSE path

AllDigits(s) == Len(s) > 0 /\ \A k \in 1 .. Len(s) : s[k] \in {"0", "1", "4"}

\* The call reached the index check: it is well formed and is not a
\* hardened segment on a public-only parent.
ReachedIndexCheck ==
    /\ Bip32WellFormedCall
    /\ ~(HasApostrophe(call.path) /\ call.parent.privateKey = Absent)

\* C4: a requested index n is accepted exactly when 0 <= n < the hardened
\* offset: n >= offset is rejected with InvalidIndex before any attempt is
\* made, and an index below the offset passes the range check (an attempt
\* at exactly n is made).
C4_IndexRange ==
    (ReachedIndexCheck /\ AllDigits(RequestedDigits(call.path))) =>
       LET n == DecimalValue(RequestedDigits(call.path))
       IN  /\ n >= BIP_32_HARDENED_OFFSET =>
                /\ pc = "idle"
                /\ result = Thrown("InvalidIndex")
                /\ attempts = <<>>
           /\ n < BIP_32_HARDENED_OFFSET =>
                /\ call.childIndex = n
                /\ pc = "deriveNode" /\ attempts = <<>> => args.childIndex = n
                /\ pc = "idle" =>
                     /\ Len(attempts) >= 1
                     /\ attempts[1].childIndex = n

\* The hardened offset itself was requested and rejected.
C4_Witness ==
    /\ ReachedIndexCheck
    /\ AllDigits(RequestedDigits(call.path))
    /\ DecimalValue(RequestedDigits(call.path)) = BIP_32_HARDENED_OFFSET
    /\ result = Thrown("InvalidIndex")

\* The path grammar: decimal digits, then at most one apostrophe, at the end.
MatchesGrammar(path) ==
    \/ AllDigits(path)
    \/ /\ Len(path) >= 2
       /\ path[Len(path)] = "'"
       /\ AllDigits(SubSeq(path, 1, Len(path) - 1))

\* C5: a segment that is not an unsigned decimal integer optionally followed
\* by exactly one trailing apostrophe is rejected and produces no node.
C5_OnlyGrammarAccepted ==
    (Bip32WellFormedCall /\ ~MatchesGrammar(call.path)) =>
       /\ pc = "idle"
       /\ result.error # "none"
       /\ attempts = <<>>

\* C6: a derived child is exactly one level below its parent however many
\* retries were made (a retry never advances the depth), so a node reached
\* by n BIP-32 segments from a BIP-39 root has depth n.
C6_DepthIsParentPlusOne ==
    /\ call.op = "bip32" =>
         \A k \in 1 .. Len(attempts) : attempts[k].depth = call.parent.depth
    /\ pc = "deriveNode" => args.depth = call.parent.depth
    /\ Bip32Returned => result.node.depth = call.parent.depth + 1
    /\ origin.root # NoNode => node.depth = origin.segments

\* The second segment below a BIP-39 root returned a node after a retry.
C6_Witness ==
    /\ Bip32Returned
    /\ Len(attempts) >= 2
    /\ attempts[1].outcome = "InvalidKey"
    /\ origin.root # NoNode
    /\ origin.segments = 2
    /\ node.depth = 2

\* C7: every descendant of a BIP-39 root carries the root's fingerprint as
\* its masterFingerprint, every child carries the fingerprint of the node it
\* was derived from as its parentFingerprint, and a retry hands both on
\* unchanged.
C7_FingerprintsInherited ==
    /\ origin.root # NoNode =>
         node.masterFingerprint = getFingerprint(origin.root.publicKey)
    /\ pc = "deriveNode" =>
         /\ args.masterFingerprint = call.parent.masterFingerprint
         /\ args.parentFingerprint = getFingerprint(call.parent.publicKey)
    /\ Bip32Returned =>
         /\ result.node.masterFingerprint = call.parent.masterFingerprint
         /\ result.node.parentFingerprint =
              getFingerprint(call.parent.publicKey)

\* A grandchild of a BIP-39 root, returned after a retry, whose parent's
\* fingerprint differs from the root's.
C7_Witness ==
    /\ Bip32Returned
    /\ Len(attempts) >= 2
    /\ attempts[1].outcome = "InvalidKey"
    /\ origin.root # NoNode
    /\ origin.segments = 2
    /\ node.parentFingerprint # node.masterFingerprint

\* The left half of HMAC-SHA512(curve.secret, seed) of the last BIP-39 call.
SeedKey == hmacSha512(CurveSecret(call.curve), call.seed)

\* C8: a node returned by the BIP-39 transform is a root with a private key:
\* depth 0, parentFingerprint 0, index 0, masterFingerprint the fingerprint
\* of its own public key; it is determined by the seed and the curve,
\* whatever node was passed in the arguments.
C8_Bip39ReturnsRoot ==
    (call.op = "bip39" /\ result.error = "none") =>
       /\ result.node.depth = 0
       /\ result.node.parentFingerprint = 0
       /\ result.node.index = 0
       /\ result.node.privateKey = SeedKey.left
       /\ result.node.privateKey # Absent
       /\ result.node.chainCode = SeedKey.right
       /\ result.node.curve = call.curve
       /\ result.node.publicKey = getPublicKey(SeedKey.left, call.curve)
       /\ result.node.masterFingerprint = getFingerprint(result.node.publicKey)
       /\ node = result.node

\* The bip39 deriver returned a root although a derived node was passed.
C8_Witness ==
    /\ call.op = "bip39"
    /\ result.error = "none"
    /\ call.parent # NoNode
    /\ call.parent.depth >= 1

C10_IndexInRange ==
    /\ pc = "deriveNode" =>
         /\ args.childIndex = call.childIndex + Len(attempts)
         /\ args.childIndex >= call.childIndex
         /\ args.childIndex < BIP_32_HARDENED_OFFSET
    /\ call.op = "bip32" =>
         /\ Len(attempts) <= BIP_32_HARDENED_OFFSET - call.childIndex
         /\ \A k \in 1 .. Len(attempts) :
               attempts[k].childIndex \in 0 .. (BIP_32_HARDENED_OFFSET - 1)
    /\ (pc = "idle" /\ call.op = "bip32" /\ Len(attempts) >= 1) =>
         \/ result.error = "none"
         \/ /\ result = Thrown("InvalidIndex")
            /\ attempts[Len(attempts)].childIndex = BIP_32_HARDENED_OFFSET - 1
            /\ attempts[Len(attempts)].outcome # "none"

\* A step that stays inside deriveNode is a retry at the next index.
C10_RetryStep ==
    (pc = "deriveNode" /\ pc' = "deriveNode") =>
        args'.childIndex = args.childIndex + 1

\* C10: the retry loop terminates: each retry raises the index by exactly
\* one, the index never reaches the hardened offset nor wraps, at most
\* offset - i attempts are made, and the loop ends with a node or, when the
\* attempt at offset - 1 fails, with InvalidIndex.
C10_RetryLoopTerminates ==
    /\ []C10_IndexInRange
    /\ [][C10_RetryStep]_vars
    /\ (pc = "deriveNode") ~> (pc = "idle")

\* The loop ran out of indices: the attempt at offset - 1 failed for invalid
\* key material after an earlier retry, and the call failed with InvalidIndex.
C10_Witness ==
    /\ pc = "idle"
    /\ call.op = "bip32"
    /\ result = Thrown("InvalidIndex")
    /\ Len(attempts) >= 2
    /\ attempts[Len(attempts)].childIndex = BIP_32_HARDENED_OFFSET - 1
    /\ \A k \in 1 .. Len(attempts) : attempts[k].outcome = "InvalidKey"

====
